---------------------------- MODULE Spec2Model ----------------------------
(***************************************************************************)
(* Comic Vault API: the identify pipeline (routes/identify.py,             *)
(* utils/vision_analysis.py, utils/image_processing.py) and the process    *)
(* around it (main.py), as a state machine.                                *)
(*                                                                         *)
(* Two specifications share the module:                                    *)
(*   Spec       the serving process: module import, requests dispatched    *)
(*              on the single event loop, the identify handler's stages;   *)
(*   SpecImage  the image utilities called on image objects of a heap.     *)
(***************************************************************************)
EXTENDS Integers, Sequences, FiniteSets, TLC

(***************************************************************************)
(* Bounds of the model.                                                    *)
(***************************************************************************)
MaxKeyLen == 11
MaxDim == 6
MaxBound == 4

(***************************************************************************)
(* Constants of the program.                                               *)
(***************************************************************************)
\* main.py:55, openai_key[:10]
KeyPrefixLen == 10
\* vision_analysis.py:5, OpenAI() keeps the client's default max_retries
DEFAULT_MAX_RETRIES == 2

Min(a, b) == IF a <= b THEN a ELSE b
Max(a, b) == IF a >= b THEN a ELSE b
Abs(a) == IF a >= 0 THEN a ELSE 0 - a

(***************************************************************************)
(* JSON values as json.loads builds them.  One record shape for every      *)
(* value: a dict has keys and items (parallel, insertion order), a list    *)
(* has items, a scalar has an atom.                                        *)
(***************************************************************************)
JVal(kind, atom, keys, items) ==
    [kind |-> kind, atom |-> atom, keys |-> keys, items |-> items]
JScalar(kind, atom) == JVal(kind, atom, <<>>, <<>>)
JNone == JScalar("none", "")

Tok(t, v) == [t |-> t, v |-> v]
Punct(v) == Tok("punct", v)
Str(v) == Tok("str", v)

\* dict[k] = v: an existing key keeps its position and takes the new value
DictSet(d, k, v) ==
    IF \E p \in 1..Len(d.keys) : d.keys[p] = k
    THEN LET p == CHOOSE q \in 1..Len(d.keys) : d.keys[q] = k
         IN  [d EXCEPT !.items[p] = v]
    ELSE [d EXCEPT !.keys = Append(@, k), !.items = Append(@, v)]

PFail == [ok |-> FALSE, val |-> JNone, next |-> 0]
POk(v, n) == [ok |-> TRUE, val |-> v, next |-> n]
IsPunct(toks, i, v) == i <= Len(toks) /\ toks[i] = Punct(v)

RECURSIVE ParseValue(_, _)
RECURSIVE ParseElems(_, _, _)
RECURSIVE ParseMembers(_, _, _)

\* the elements of a list after "[" or after a ","
ParseElems(toks, i, acc) ==
    LET e == ParseValue(toks, i) IN
    IF ~e.ok THEN PFail
    ELSE LET acc2 == [acc EXCEPT !.items = Append(@, e.val)] IN
         IF IsPunct(toks, e.next, ",") THEN ParseElems(toks, e.next + 1, acc2)
         ELSE IF IsPunct(toks, e.next, "]") THEN POk(acc2, e.next + 1)
         ELSE PFail

\* the members of a dict after "{" or after a ","
ParseMembers(toks, i, acc) ==
    IF ~(i <= Len(toks) /\ toks[i].t = "str" /\ IsPunct(toks, i + 1, ":"))
    THEN PFail
    ELSE LET e == ParseValue(toks, i + 2) IN
         IF ~e.ok THEN PFail
         ELSE LET acc2 == DictSet(acc, toks[i].v, e.val) IN
              IF IsPunct(toks, e.next, ",") THEN ParseMembers(toks, e.next + 1, acc2)
              ELSE IF IsPunct(toks, e.next, "}") THEN POk(acc2, e.next + 1)
              ELSE PFail

ParseValue(toks, i) ==
    IF i > Len(toks) THEN PFail
    ELSE LET tok == toks[i] IN
         CASE tok.t = "str" -> POk(JScalar("string", tok.v), i + 1)
           [] tok.t = "num" -> POk(JScalar("number", tok.v), i + 1)
           [] tok.t = "lit" -> POk(JScalar("literal", tok.v), i + 1)
           \* json.loads takes NaN, Infinity and -Infinity (parse_constant)
           [] tok.t = "const" -> POk(JScalar("nonfinite", tok.v), i + 1)
           [] tok = Punct("[") ->
                IF IsPunct(toks, i + 1, "]")
                THEN POk(JVal("array", "", <<>>, <<>>), i + 2)
                ELSE ParseElems(toks, i + 1, JVal("array", "", <<>>, <<>>))
           [] tok = Punct("{") ->
                IF IsPunct(toks, i + 1, "}")
                THEN POk(JVal("object", "", <<>>, <<>>), i + 2)
                ELSE ParseMembers(toks, i + 1, JVal("object", "", <<>>, <<>>))
           [] OTHER -> PFail

\* json.loads(result): one value, then the end of the text
json_loads(toks) ==
    LET r == ParseValue(toks, 1) IN
    IF r.ok /\ r.next = Len(toks) + 1
    THEN [ok |-> TRUE, val |-> r.val]
    ELSE [ok |-> FALSE, val |-> JNone]

\* the default JSON response refuses out-of-range floats (allow_nan=False)
RECURSIVE Renders(_)
Renders(v) ==
    /\ v.kind # "nonfinite"
    /\ \A p \in 1..Len(v.items) : Renders(v.items[p])

(***************************************************************************)
(* The texts the external model may answer with.                           *)
(***************************************************************************)
TextObject == << Punct("{"), Str("title"), Punct(":"), Str("Amazing Spider-Man"),
                 Punct(","), Str("issue"), Punct(":"), Str("1"), Punct("}") >>
TextEmptyObject == << Punct("{"), Punct("}") >>
TextNested == << Punct("{"), Str("characters"), Punct(":"), Punct("["),
                 Str("Spider-Man"), Punct("]"), Punct("}") >>
TextDuplicate == << Punct("{"), Str("issue"), Punct(":"), Str("1"), Punct(","),
                    Str("issue"), Punct(":"), Tok("num", "2"), Punct("}") >>
TextArray == << Punct("["), Str("Amazing Spider-Man"), Punct("]") >>
TextString == << Str("Amazing Spider-Man") >>
TextNull == << Tok("lit", "null") >>
TextNaN == << Punct("{"), Str("issue"), Punct(":"), Tok("const", "NaN"), Punct("}") >>
TextFenced == << Tok("junk", "fence-json") >> \o TextObject \o << Tok("junk", "fence") >>
TextProse == TextObject \o << Tok("junk", "Hope this helps!") >>
TextEmpty == << >>

ModelTexts == { TextObject, TextEmptyObject, TextNested, TextDuplicate, TextArray,
                TextString, TextNull, TextNaN, TextFenced, TextProse, TextEmpty }

(***************************************************************************)
(* Images.  An uploaded byte stream is a container the decoder recognises  *)
(* or not; Image.open reads the header only, the pixel data is decoded     *)
(* when an operation needs it (convert, save).                             *)
(***************************************************************************)
Modes == {"RGB", "L", "RGBA", "P", "CMYK"}
SupportedModesWithAlpha == {"RGB", "L", "RGBA"}
\* image_processing.py:21 and :78, the modes left as they are
SupportedModes == {"RGB", "L"}

Img(size, mode, intact) == [size |-> size, mode |-> mode, intact |-> intact]
NoImg == Img(<<0, 0>>, "none", FALSE)
Bytes(container, size, mode, intact) ==
    [container |-> container, size |-> size, mode |-> mode, intact |-> intact]

Returned(image) == [ok |-> TRUE, image |-> image, exc |-> "", msg |-> ""]
Raised(exc, msg) == [ok |-> FALSE, image |-> NoImg, exc |-> exc, msg |-> msg]

\* Image.open(BytesIO(image_bytes))
Image_open(b) ==
    IF b.container
    THEN Returned(Img(b.size, b.mode, b.intact))
    ELSE Raised("UnidentifiedImageError", "cannot identify image file")

\* image.convert('RGB'): a new image; decodes the pixel data first
convert(image, mode) ==
    IF image.intact
    THEN Returned(Img(image.size, mode, TRUE))
    ELSE Raised("OSError", "image file is truncated")

load_image_as_pillow(image_bytes) ==
    LET opened == Image_open(image_bytes)
        converted == IF opened.ok /\ opened.image.mode \notin SupportedModes
                     THEN convert(opened.image, "RGB")
                     ELSE opened
    IN  IF converted.ok
        THEN converted
        ELSE Raised("ValueError", <<"Failed to load image: ", converted.msg>>)

Floor(num, den) == num \div den
Ceil(num, den) == IF num % den = 0 THEN num \div den ELSE (num \div den) + 1
\* a <= b for fractions <<p, q>>, q > 0
FracLe(a, b) == a[1] * b[2] <= b[1] * a[2]

\* Image.thumbnail's round_aspect: of floor and ceiling of the number the
\* one with the smaller key (the floor on a tie), at least 1
round_aspect(lo, hi, keyLo, keyHi) ==
    Max(IF FracLe(keyLo, keyHi) THEN lo ELSE hi, 1)

\* abs(aspect - n / y), aspect = w / h
KeyWidth(n, w, h, y) == <<Abs(w * y - n * h), h * y>>
\* 0 if n == 0 else abs(aspect - x / n)
KeyHeight(n, w, h, x) == IF n = 0 THEN <<0, 1>> ELSE <<Abs(w * n - x * h), h * n>>

thumbnail_stretch(w, h, x, y) == <<Min(w, x), Min(h, y)>>
\* Image.thumbnail(max_size): the size the image is given, never larger
\* than it was, aspect = w / h kept
thumbnail_size(w, h, x, y) ==
    IF x >= w /\ y >= h THEN <<w, h>>
    ELSE IF x * h >= y * w
         THEN LET lo == Floor(y * w, h)
                  hi == Ceil(y * w, h)
              IN  <<round_aspect(lo, hi, KeyWidth(lo, w, h, y), KeyWidth(hi, w, h, y)), y>>
         ELSE LET lo == Floor(x * h, w)
                  hi == Ceil(x * h, w)
              IN  <<x, round_aspect(lo, hi, KeyHeight(lo, w, h, x), KeyHeight(hi, w, h, x))>>

(***************************************************************************)
(* State.                                                                  *)
(***************************************************************************)
VARIABLES
    \* the serving process
    envKey,         \* OPENAI_API_KEY in the process environment
    phase,          \* how far main.py has run: "import", "envcheck", "serving"
    routes_loaded,  \* /api/comics/identify is among app.routes
    logs,           \* the log records written about the credential
    req,            \* per request: what the client sent
    pc,             \* per request: where its handler stands
    running,        \* the request whose handler holds the event loop
    pil_image,      \* per request: the normalizer's image
    result,         \* per request: the text of the model's completion
    stages,         \* per request: the stages entered and HTTP requests issued
    raised,         \* per request: the exception raised inside the try block
    resp,           \* per request: the response sent
    \* the image utilities
    heap,           \* the image objects, by reference
    call,           \* the call made: operation and arguments
    before,         \* the argument image as it was when the call was made
    ret,            \* what the call returned
    ipc             \* "ready" or "returned"

srvVars == <<envKey, phase, routes_loaded, logs, req, pc, running, pil_image,
             result, stages, raised, resp>>
imgVars == <<heap, call, before, ret, ipc>>
vars == <<envKey, phase, routes_loaded, logs, req, pc, running, pil_image,
          result, stages, raised, resp, heap, call, before, ret, ipc>>

Reqs == {"r1", "r2"}
NoReq == "none"
UserIds == {"u1", "u2"}

\* the credential: unset, or a string (a sequence of characters)
Unset == [set |-> FALSE, val |-> <<>>]
KeyOfLen(n) == [set |-> TRUE, val |-> [i \in 1..n |-> i]]
EnvKeys == {Unset, KeyOfLen(0)}
               \cup {KeyOfLen(n) : n \in (KeyPrefixLen - 1)..MaxKeyLen}
\* os.getenv("OPENAI_API_KEY")
getenv_key == IF envKey.set THEN envKey.val ELSE <<>>
\* bool(os.getenv("OPENAI_API_KEY")) and `if openai_key:`
Truthy(k) == k.set /\ Len(k.val) > 0

\* the uploads a client may send
Uploads == { Bytes(FALSE, <<0, 0>>, "none", FALSE),
             Bytes(TRUE, <<2, 3>>, "RGB", TRUE),
             Bytes(TRUE, <<2, 3>>, "RGBA", TRUE),
             Bytes(TRUE, <<2, 3>>, "L", FALSE),
             Bytes(TRUE, <<2, 3>>, "P", FALSE) }

NoRequest == [kind |-> "none", user_id |-> "", image |-> Bytes(FALSE, <<0, 0>>, "none", FALSE)]

Resp(status, shape, user_id, metadata, msg, oc, rl) ==
    [status |-> status, shape |-> shape, user_id |-> user_id,
     metadata |-> metadata, msg |-> msg,
     openai_configured |-> oc, routes_loaded |-> rl]
NoResp == Resp(0, "none", "", JNone, <<>>, FALSE, FALSE)

\* identify.py:24-27, the handler's return value, rendered by the default
\* JSON response class
IdentifyOk(user_id, identification) ==
    Resp(200, "identify", user_id, identification, <<>>, FALSE, FALSE)
\* identify.py:29-33
IdentifyError(e) ==
    Resp(500, "detail", "", JNone, <<"Identification error: ", e>>, FALSE, FALSE)
\* main.py:116-127
global_exception_handler(exc) ==
    Resp(500, "global", "", JNone, <<"Internal server error", exc>>, FALSE, FALSE)
\* the router's answer to a path without a route
NotFound == Resp(404, "not_found", "", JNone, <<"Not Found">>, FALSE, FALSE)
(***************************************************************************)
(* Process start: main.py runs top to bottom.                              *)
(***************************************************************************)
OpenAI_init_lazy(key) == TRUE
\* vision_analysis.py:5, client = OpenAI(): the constructor raises when
\* no api key is given and OPENAI_API_KEY is not in the environment
OpenAI_init(key) == key.set

\* main.py:43-50, importing routes.identify imports utils.vision_analysis,
\* which constructs the client; a failed import leaves the route out
ImportRouter ==
    /\ phase = "import"
    /\ routes_loaded' = OpenAI_init(envKey)
    /\ phase' = "envcheck"
    /\ UNCHANGED <<envKey, logs, req, pc, running, pil_image, result, stages,
                   raised, resp>>
    /\ UNCHANGED imgVars

\* openai_key[:10]
KeyPrefix(k) == SubSeq(k, 1, Min(KeyPrefixLen, Len(k)))
LogRec(level, tag, text) == [level |-> level, tag |-> tag, text |-> text]

\* main.py:52-57
CheckEnv ==
    /\ phase = "envcheck"
    /\ LET openai_key == getenv_key IN
       logs' = logs \cup
           { IF Truthy(envKey)
             THEN LogRec("info", "OPENAI_API_KEY is configured (starts with: ",
                         KeyPrefix(openai_key))
             ELSE LogRec("warning", "OPENAI_API_KEY is not set", <<>>) }
    /\ phase' = "serving"
    /\ UNCHANGED <<envKey, routes_loaded, req, pc, running, pil_image, result,
                   stages, raised, resp>>
    /\ UNCHANGED imgVars

(***************************************************************************)
(* Requests.  Handlers are coroutines of one event loop: a handler runs    *)
(* from one await to the next without any other handler running.           *)
(***************************************************************************)
\* a client sends a request
Arrive(r) ==
    /\ phase = "serving"
    /\ pc[r] = "idle"
    /\ \E kind \in {"root", "health", "identify"} :
         IF kind = "identify"
         THEN \E u \in UserIds, b \in Uploads :
                req' = [req EXCEPT ![r] = [kind |-> kind, user_id |-> u, image |-> b]]
         ELSE req' = [req EXCEPT ![r] = [NoRequest EXCEPT !.kind = kind]]
    /\ pc' = [pc EXCEPT ![r] = "pending"]
    /\ UNCHANGED <<envKey, phase, routes_loaded, logs, running, pil_image,
                   result, stages, raised, resp>>
    /\ UNCHANGED imgVars

Finish(r, response) ==
    /\ resp' = [resp EXCEPT ![r] = response]
    /\ pc' = [pc EXCEPT ![r] = "done"]
    /\ running' = NoReq

\* main.py:60-73
root(r) ==
    /\ running = NoReq
    /\ pc[r] = "pending"
    /\ req[r].kind = "root"
    /\ Finish(r, Resp(200, "root", "", JNone, <<"Comic Vault API">>, FALSE, FALSE))
    /\ UNCHANGED <<envKey, phase, routes_loaded, logs, req, pil_image, result,
                   stages, raised>>
    /\ UNCHANGED imgVars

\* main.py:76-93
health_check(r) ==
    /\ running = NoReq
    /\ pc[r] = "pending"
    /\ req[r].kind = "health"
    /\ Finish(r, Resp(200, "health", "", JNone, <<"healthy">>,
                      Truthy(envKey), routes_loaded))
    /\ UNCHANGED <<envKey, phase, routes_loaded, logs, req, pil_image, result,
                   stages, raised>>
    /\ UNCHANGED imgVars

\* POST /api/comics/identify when the router was not included
NoRoute(r) ==
    /\ running = NoReq
    /\ pc[r] = "pending"
    /\ req[r].kind = "identify"
    /\ ~routes_loaded
    /\ Finish(r, NotFound)
    /\ UNCHANGED <<envKey, phase, routes_loaded, logs, req, pil_image, result,
                   stages, raised>>
    /\ UNCHANGED imgVars

\* identify.py:8-19, the handler is entered and awaits image.read()
identify_comic(r) ==
    /\ running = NoReq
    /\ pc[r] = "pending"
    /\ req[r].kind = "identify"
    /\ routes_loaded
    /\ pc' = [pc EXCEPT ![r] = "read"]
    /\ UNCHANGED <<envKey, phase, routes_loaded, logs, req, running, pil_image,
                   result, stages, raised, resp>>
    /\ UNCHANGED imgVars

except_ValueError(exc) == exc = "ValueError"
\* identify.py:29, except Exception
except_Exception(exc) == TRUE

\* an exception raised inside the try block of identify_comic
Fail(r, exc, msg) ==
    /\ raised' = [raised EXCEPT ![r] = [exc |-> exc, msg |-> msg]]
    /\ Finish(r, IF except_Exception(exc)
                 THEN IdentifyError(msg)
                 ELSE global_exception_handler(msg))

\* identify.py:19, load_image_as_pillow on the bytes read
LoadImage(r) ==
    /\ running = NoReq
    /\ pc[r] = "read"
    /\ stages' = [stages EXCEPT ![r] = Append(@, "normalizer")]
    /\ LET loaded == load_image_as_pillow(req[r].image) IN
       IF loaded.ok
       THEN /\ pil_image' = [pil_image EXCEPT ![r] = loaded.image]
            /\ pc' = [pc EXCEPT ![r] = "loaded"]
            /\ running' = r
            /\ UNCHANGED <<raised, resp>>
       ELSE /\ Fail(r, loaded.exc, loaded.msg)
            /\ UNCHANGED pil_image
    /\ UNCHANGED <<envKey, phase, routes_loaded, logs, req, result>>
    /\ UNCHANGED imgVars

\* identify.py:22 and vision_analysis.py:13-15, analyze_comic_cover is
\* entered and saves the image as PNG, which decodes the pixel data
EncodeImage(r) ==
    /\ running = r
    /\ pc[r] = "loaded"
    /\ stages' = [stages EXCEPT ![r] = Append(@, "vision")]
    /\ IF pil_image[r].intact
       THEN /\ pc' = [pc EXCEPT ![r] = "send"]
            /\ UNCHANGED <<running, raised, resp>>
       ELSE Fail(r, "OSError", <<"image file is truncated">>)
    /\ UNCHANGED <<envKey, phase, routes_loaded, logs, req, pil_image, result>>
    /\ UNCHANGED imgVars

HttpRequests(r) == Len(SelectSeq(stages[r], LAMBDA e : e = "http"))

\* vision_analysis.py:34-50, client.chat.completions.create sends the
\* request and blocks the calling thread until the answer arrives
SendRequest(r) ==
    /\ running = r
    /\ pc[r] = "send"
    /\ stages' = [stages EXCEPT ![r] = Append(@, "http")]
    /\ pc' = [pc EXCEPT ![r] = "await"]
    /\ UNCHANGED <<envKey, phase, routes_loaded, logs, req, running, pil_image,
                   result, raised, resp>>
    /\ UNCHANGED imgVars

\* the failures the client retries, and those it raises at once
Retryable == {"APIConnectionError", "InternalServerError"}
NotRetryable == {"AuthenticationError", "BadRequestError"}

\* the model answers with a completion (vision_analysis.py:52)
ReplyText(r) ==
    /\ running = r
    /\ pc[r] = "await"
    /\ Truthy(envKey)
    /\ \E t \in ModelTexts : result' = [result EXCEPT ![r] = t]
    /\ pc' = [pc EXCEPT ![r] = "parse"]
    /\ UNCHANGED <<envKey, phase, routes_loaded, logs, req, running, pil_image,
                   stages, raised, resp>>
    /\ UNCHANGED imgVars

\* the request fails and the client, built with its default max_retries,
\* sends it again
ReplyRetry(r) ==
    /\ running = r
    /\ pc[r] = "await"
    /\ HttpRequests(r) <= DEFAULT_MAX_RETRIES
    /\ pc' = [pc EXCEPT ![r] = "send"]
    /\ UNCHANGED <<envKey, phase, routes_loaded, logs, req, running, pil_image,
                   result, stages, raised, resp>>
    /\ UNCHANGED imgVars

\* the request fails and create() raises
ReplyRaise(r) ==
    /\ running = r
    /\ pc[r] = "await"
    /\ \E e \in Retryable \cup NotRetryable :
         /\ e \in Retryable => HttpRequests(r) > DEFAULT_MAX_RETRIES
         /\ Fail(r, e, <<e>>)
    /\ UNCHANGED <<envKey, phase, routes_loaded, logs, req, pil_image, result,
                   stages>>
    /\ UNCHANGED imgVars

\* vision_analysis.py:52-56 and identify.py:24-27: json.loads of the text,
\* the handler's return, and the rendering of the returned value
ParseResult(r) ==
    /\ running = r
    /\ pc[r] = "parse"
    /\ stages' = [stages EXCEPT ![r] = Append(@, "parser")]
    /\ LET identification == json_loads(result[r]) IN
       IF ~identification.ok
       THEN Fail(r, "JSONDecodeError", <<"JSONDecodeError">>)
       ELSE /\ Finish(r, IF Renders(identification.val)
                         THEN IdentifyOk(req[r].user_id, identification.val)
                         ELSE global_exception_handler(
                                  <<"Out of range float values are not JSON compliant">>))
            /\ UNCHANGED raised
    /\ UNCHANGED <<envKey, phase, routes_loaded, logs, req, pil_image, result>>
    /\ UNCHANGED imgVars

NoCall == [op |-> "none", ref |-> 0, max_size |-> <<0, 0>>, quality |-> 0,
           image_bytes |-> Bytes(FALSE, <<0, 0>>, "none", FALSE)]
NoRet == [kind |-> "none", ref |-> 0, exc |-> "", size |-> <<0, 0>>,
          mode |-> "none", quality |-> 0]

Init ==
    /\ envKey \in EnvKeys
    /\ phase = "import"
    /\ routes_loaded = FALSE
    /\ logs = {}
    /\ req = [r \in Reqs |-> NoRequest]
    /\ pc = [r \in Reqs |-> "idle"]
    /\ running = NoReq
    /\ pil_image = [r \in Reqs |-> NoImg]
    /\ result = [r \in Reqs |-> <<>>]
    /\ stages = [r \in Reqs |-> <<>>]
    /\ raised = [r \in Reqs |-> [exc |-> "", msg |-> <<>>]]
    /\ resp = [r \in Reqs |-> NoResp]
    /\ heap = <<>>
    /\ call = NoCall
    /\ before = NoImg
    /\ ret = NoRet
    /\ ipc = "off"

Next ==
    \/ ImportRouter
    \/ CheckEnv
    \/ \E r \in Reqs :
         \/ Arrive(r)
         \/ root(r)
         \/ health_check(r)
         \/ NoRoute(r)
         \/ identify_comic(r)
         \/ LoadImage(r)
         \/ EncodeImage(r)
         \/ SendRequest(r)
         \/ ReplyText(r)
         \/ ReplyRetry(r)
         \/ ReplyRaise(r)
         \/ ParseResult(r)

Spec == Init /\ [][Next]_vars
(***************************************************************************)
(* The image utilities, called on image objects held by reference.         *)
(***************************************************************************)
Qualities == {1, 85, 100}
ImageBytes == { Bytes(c, <<2, 3>>, m, i) : c \in BOOLEAN, m \in Modes, i \in BOOLEAN }
MaxSizes == (1..MaxBound) \X (1..MaxBound)

\* image_processing.py:29-41: thumbnail changes the image in place and the
\* same object is returned
resize_image(h, image, max_size) ==
    [heap |-> [h EXCEPT ![image].size =
                   thumbnail_size(@[1], @[2], max_size[1], max_size[2])],
     ref |-> image]

\* image_processing.py:61-84
optimize_image_for_api(h, image, max_size, quality) ==
    LET resized == IF h[image].size[1] > max_size[1] \/ h[image].size[2] > max_size[2]
                   THEN resize_image(h, image, max_size)
                   ELSE [heap |-> h, ref |-> image]
        h1 == resized.heap
        converted == IF h1[resized.ref].mode \notin SupportedModes
                     THEN [heap |-> Append(h1, convert(h1[resized.ref], "RGB").image),
                           ref |-> Len(h1) + 1]
                     ELSE resized
        saved == converted.heap[converted.ref]
    IN  [heap |-> converted.heap,
         bytes |-> [size |-> saved.size, mode |-> saved.mode, quality |-> quality]]

CallLoad ==
    /\ ipc = "ready"
    /\ \E b \in ImageBytes :
         LET loaded == load_image_as_pillow(b) IN
         /\ call' = [NoCall EXCEPT !.op = "load", !.image_bytes = b]
         /\ before' = NoImg
         /\ IF loaded.ok
            THEN /\ heap' = Append(heap, loaded.image)
                 /\ ret' = [NoRet EXCEPT !.kind = "image", !.ref = Len(heap) + 1]
            ELSE /\ heap' = heap
                 /\ ret' = [NoRet EXCEPT !.kind = "raise", !.exc = loaded.exc]
    /\ ipc' = "returned"
    /\ UNCHANGED srvVars

CallResize ==
    /\ ipc = "ready"
    /\ \E max_size \in MaxSizes :
         LET r == resize_image(heap, 1, max_size) IN
         /\ call' = [NoCall EXCEPT !.op = "resize", !.ref = 1, !.max_size = max_size]
         /\ before' = heap[1]
         /\ heap' = r.heap
         /\ ret' = [NoRet EXCEPT !.kind = "image", !.ref = r.ref]
    /\ ipc' = "returned"
    /\ UNCHANGED srvVars

CallOptimize ==
    /\ ipc = "ready"
    /\ \E max_size \in MaxSizes, quality \in Qualities :
         LET r == optimize_image_for_api(heap, 1, max_size, quality) IN
         /\ call' = [NoCall EXCEPT !.op = "optimize", !.ref = 1,
                                   !.max_size = max_size, !.quality = quality]
         /\ before' = heap[1]
         /\ heap' = r.heap
         /\ ret' = [NoRet EXCEPT !.kind = "bytes", !.size = r.bytes.size,
                                 !.mode = r.bytes.mode, !.quality = r.bytes.quality]
    /\ ipc' = "returned"
    /\ UNCHANGED srvVars

InitImage ==
    /\ envKey = Unset
    /\ phase = "off"
    /\ routes_loaded = FALSE
    /\ logs = {}
    /\ req = [r \in Reqs |-> NoRequest]
    /\ pc = [r \in Reqs |-> "idle"]
    /\ running = NoReq
    /\ pil_image = [r \in Reqs |-> NoImg]
    /\ result = [r \in Reqs |-> <<>>]
    /\ stages = [r \in Reqs |-> <<>>]
    /\ raised = [r \in Reqs |-> [exc |-> "", msg |-> <<>>]]
    /\ resp = [r \in Reqs |-> NoResp]
    /\ \E w \in 1..MaxDim, h \in 1..MaxDim, m \in Modes :
         heap = << Img(<<w, h>>, m, TRUE) >>
    /\ call = NoCall
    /\ before = NoImg
    /\ ret = NoRet
    /\ ipc = "ready"

NextImage == CallLoad \/ CallResize \/ CallOptimize

SpecImage == InitImage /\ [][NextImage]_vars
(***************************************************************************)
(* Properties.                                                             *)
(***************************************************************************)
Done(r) == pc[r] = "done"
Entered(r, stage) == \E i \in 1..Len(stages[r]) : stages[r][i] = stage
IsPrefix(a, b) == Len(a) <= Len(b) /\ SubSeq(b, 1, Len(a)) = a
\* text holds key as a contiguous run of characters
Contains(text, key) ==
    \E i \in 0..(Len(text) - Len(key)) : SubSeq(text, i + 1, i + Len(key)) = key

\* C1: an identify request whose image decoded, whose vision call returned
\* and whose text parsed is answered 200 with the submitted user_id and
\* with exactly the value decoded from the text as metadata.
C1_SuccessResponse ==
    \A r \in Reqs :
        (Done(r) /\ Entered(r, "parser") /\ json_loads(result[r]).ok)
            => resp[r] = IdentifyOk(req[r].user_id, json_loads(result[r]).val)

C3_StagesOnce ==
    \A r \in Reqs :
        /\ IsPrefix(stages[r], <<"normalizer", "vision", "http", "parser">>)
        /\ HttpRequests(r) <= 1
        /\ raised[r].exc = "ValueError" => ~Entered(r, "vision")
        /\ raised[r].exc \in Retryable \cup NotRetryable => ~Entered(r, "parser")

\* C4: whenever identify answers 200, its metadata is a JSON object.
C4_MetadataIsObject ==
    \A r \in Reqs :
        (resp[r].status = 200 /\ resp[r].shape = "identify")
            => resp[r].metadata.kind = "object"

C6_HealthFlagAndNoLeak ==
    /\ \A r \in Reqs :
          resp[r].shape = "health" =>
              /\ ~envKey.set => ~resp[r].openai_configured
              /\ Truthy(envKey) => resp[r].openai_configured
    /\ Truthy(envKey) => \A l \in logs : ~Contains(l.text, envKey.val)

\* C7 as stated: with the credential unset at start, an identify request is
\* answered with the pipeline's 500 {detail: ...}.
C7_UnsetKeySurfacesAs500 ==
    ~envKey.set =>
        \A r \in Reqs :
            (Done(r) /\ req[r].kind = "identify")
                => resp[r].status = 500 /\ resp[r].shape = "detail"

\* C7 amended: with the credential unset at start the import of the
\* identify router fails, the process still serves GET / and GET /health
\* (health reporting openai_configured and routes_loaded false), and an
\* identify request is answered 404 by the router, never by the pipeline.
C7_UnsetKeyNoRoute ==
    (~envKey.set /\ phase # "import") =>
        /\ ~routes_loaded
        /\ \A r \in Reqs :
              /\ stages[r] = <<>>
              /\ Done(r) =>
                    /\ req[r].kind = "root"
                          => resp[r].status = 200 /\ resp[r].shape = "root"
                    /\ req[r].kind = "health"
                          => /\ resp[r].status = 200 /\ resp[r].shape = "health"
                             /\ ~resp[r].openai_configured
                             /\ ~resp[r].routes_loaded
                    /\ req[r].kind = "identify" => resp[r] = NotFound

\* C7 witness: no credential, an identify request answered 404 and a health
\* request answered.
C7_Witness ==
    /\ ~envKey.set
    /\ Done("r1") /\ req["r1"].kind = "identify" /\ resp["r1"].status = 404
    /\ Done("r2") /\ req["r2"].kind = "health" /\ resp["r2"].status = 200

\* C8: while one identify request waits for the external model's answer,
\* any other pending request can be started.
C8_NonBlocking ==
    \A r \in Reqs, q \in Reqs :
        (r # q /\ pc[r] = "await" /\ pc[q] = "pending")
            => ENABLED (root(q) \/ health_check(q) \/ NoRoute(q) \/ identify_comic(q))

\* C9: after resize_image or optimize_image_for_api returns, the image the
\* caller passed is as it was, and a returned image is another object.
C9_ArgumentUntouched ==
    (ipc = "returned" /\ call.op \in {"resize", "optimize"}) =>
        /\ heap[call.ref] = before
        /\ ret.kind = "image" => ret.ref # call.ref

\* one dimension is within a pixel of what the other gives at aspect w / h
AspectKept(w, h, w2, h2) == Abs(w2 * h - h2 * w) < Max(w, h)
WithinBox(size, max_size) ==
    /\ 1 <= size[1] /\ size[1] <= max_size[1]
    /\ 1 <= size[2] /\ size[2] <= max_size[2]

\* C10: resize_image gives a size within the bound with the aspect ratio
\* kept up to rounding (2000x1000 in 1024x1024 gives 1024x512), and
\* optimize_image_for_api resizes so only when the image exceeds the bound
\* and keeps the size otherwise.
C10_ResizeBounds ==
    /\ thumbnail_size(2000, 1000, 1024, 1024) = <<1024, 512>>
    /\ (ipc = "returned" /\ call.op = "resize") =>
          /\ WithinBox(heap[ret.ref].size, call.max_size)
          /\ AspectKept(before.size[1], before.size[2],
                        heap[ret.ref].size[1], heap[ret.ref].size[2])
    /\ (ipc = "returned" /\ call.op = "optimize") =>
          IF before.size[1] > call.max_size[1] \/ before.size[2] > call.max_size[2]
          THEN /\ WithinBox(ret.size, call.max_size)
               /\ AspectKept(before.size[1], before.size[2], ret.size[1], ret.size[2])
          ELSE ret.size = before.size

\* C10 witness: a 6x3 image resized within 4x4 came out 4x2.
C10_Witness ==
    /\ ipc = "returned" /\ call.op = "resize"
    /\ before.size = <<6, 3>> /\ call.max_size = <<4, 4>>
    /\ heap[ret.ref].size = <<4, 2>>
=============================================================================
